---- MODULE Spec2Model ----
(***************************************************************************)
(* Model of the two fixers of pbi_fixer:                                   *)
(*   report/_Fix_UpgradeToPbir.py          fix_upgrade_to_pbir             *)
(*   semantic_model/_Fix_DefaultDataSourceVersion.py                       *)
(*                                         fix_default_datasource_version  *)
(* One behaviour is one invocation of one of the two entry points by a     *)
(* single-threaded caller, together with the remote service it talks to.   *)
(* Time is counted in whole seconds since start_time of the polling loop.  *)
(***************************************************************************)
EXTENDS Integers, Sequences, FiniteSets

\* ------------------------------------------------------------------------
\* Program constants
\* ------------------------------------------------------------------------
_TIME_LIMIT == 60
_TIME_BETWEEN_REQUESTS == 2

\* ------------------------------------------------------------------------
\* Bounds of the model
\* ------------------------------------------------------------------------
\* longest time, in seconds, one listing request of the polling loop takes
MaxPollSecs == 1

\* ------------------------------------------------------------------------
\* Values
\* ------------------------------------------------------------------------
\* Python's None (a missing key of a dict read with .get, an unset local)
None == "None"
\* the value of a local that has not been assigned yet
Unset == "unset"

\* str(rpt_id) of the resolved report, and another report of the workspace
TargetId == "r1"
OtherId == "r2"

\* format tags a report record of the listing can carry
FormatTags == {"PBIR", "PBIRLegacy", "RDL"}
\* what rpt.get("format") can evaluate to for a record of the listing
FormatValues == FormatTags \cup {None}

\* a member of the enumeration DefaultPowerBIDataSourceVersion of the
\* tabular object model
EnumMember(name) == [enum |-> "DefaultPowerBIDataSourceVersion", member |-> name]
DataSourceVersions ==
    { EnumMember(n) : n \in {"PowerBI_V1", "PowerBI_V2", "PowerBI_V3"} }

\* str(tom.model.DefaultPowerBIDataSourceVersion): the name of the member
Str(v) == v.member

VARIABLES
    pc,             \* position of the caller / the running fixer
    scan_only,      \* the scan_only argument of the running fixer
    srvFormat,      \* format of the target report stored by the service
    srvSavePending, \* an embedded edit session was started with a token
    response,       \* value list of the last listing response
    rpt_format,     \* local of fix_upgrade_to_pbir
    access_token,   \* local of fix_upgrade_to_pbir
    elapsed,        \* time.time() - start_time in _check_upgrade_status
    verified,       \* keys of the dict verified
    unverified,     \* keys of the dict unverified
    calls,          \* remote operations issued by the run, in order
    printed,        \* messages printed by the run, in order
    ret,            \* value returned to the caller (Unset while running)
    exc,            \* call site of the exception that left the fixer
    conn,           \* state of the connect_semantic_model context
    modelDsv,       \* tom.model.DefaultPowerBIDataSourceVersion
    current_value,  \* local of fix_default_datasource_version
    writes          \* values assigned to the property by the run, in order

vars == <<pc, scan_only, srvFormat, srvSavePending, response, rpt_format,
          access_token, elapsed, verified, unverified, calls, printed, ret,
          exc, conn, modelDsv, current_value, writes>>

upgVars == <<srvFormat, srvSavePending, response, rpt_format, access_token,
             elapsed, verified, unverified, calls>>
dsvVars == <<conn, modelDsv, current_value, writes>>

\* ------------------------------------------------------------------------
\* Listing responses of GET /v1.0/myorg/groups/{ws}/reports
\* ------------------------------------------------------------------------
ReportRecord(id, fmt) == [id |-> id, format |-> fmt]

\* The value lists the service can answer with: the workspace's reports
\* with the target report in its stored format, or without the target
\* report (deleted meanwhile, or on a page that is not fetched), or empty.
ListingResponses ==
    { <<ReportRecord(OtherId, "PBIRLegacy"), ReportRecord(TargetId, srvFormat)>>,
      <<ReportRecord(TargetId, srvFormat), ReportRecord(OtherId, "PBIRLegacy")>>,
      <<ReportRecord(OtherId, "PBIRLegacy")>>,
      <<>> }

\* FindFormat without the comparison of the record's id
FindFormat_FirstRecord(value, id) ==
    IF value # <<>> THEN value[1].format ELSE None

\* for rpt in value: if rpt.get("id") == str(rpt_id): rpt_format = ...; break
FindFormat(value, id) ==
    IF \E i \in DOMAIN value : value[i].id = id
    THEN LET first == CHOOSE i \in DOMAIN value :
                          /\ value[i].id = id
                          /\ \A j \in DOMAIN value : value[j].id = id => i <= j
         IN  value[first].format
    ELSE None

\* keys of verified after the for loop over one listing response
VerifiedIds(value, updated_report_ids) ==
    { value[i].id : i \in { j \in DOMAIN value :
                              /\ value[j].id \in updated_report_ids
                              /\ value[j].format = "PBIR" } }

\* keys of unverified after the for loop over one listing response
UnverifiedIds(value, updated_report_ids) ==
    { value[i].id : i \in { j \in DOMAIN value :
                              /\ value[j].id \in updated_report_ids
                              /\ value[j].format # "PBIR" } }

\* [str(rpt_id)], the argument fix_upgrade_to_pbir passes to the poller
updated_report_ids == {TargetId}

\* ------------------------------------------------------------------------
\* Initial state: nothing has been called; the service holds the report in
\* some format and the semantic model with some data source version.
\* ------------------------------------------------------------------------
Init ==
    /\ pc = "idle"
    /\ scan_only = FALSE
    /\ srvFormat \in FormatValues
    /\ srvSavePending = FALSE
    /\ response = <<>>
    /\ rpt_format = None
    /\ access_token = Unset
    /\ elapsed = 0
    /\ verified = {}
    /\ unverified = {}
    /\ calls = <<>>
    /\ printed = <<>>
    /\ ret = Unset
    /\ exc = "none"
    /\ conn = "closed"
    /\ modelDsv \in DataSourceVersions
    /\ current_value = Unset
    /\ writes = <<>>

\* ------------------------------------------------------------------------
\* fix_upgrade_to_pbir
\* ------------------------------------------------------------------------
\* The caller invokes fix_upgrade_to_pbir(report, workspace, scan_only);
\* workspace and report are resolved by the external helpers.
CallUpgrade ==
    /\ pc = "idle"
    /\ \E s \in BOOLEAN : scan_only' = s
    /\ pc' = "u_list"
    /\ UNCHANGED <<upgVars, dsvVars, printed, ret, exc>>

\* ClassifyMsg without the check "rpt_format != 'PBIRLegacy'"
ClassifyMsg_NoLegacyCheck(fmt, scan) ==
    IF fmt = None THEN "not_found"
    ELSE IF fmt = "PBIR" THEN "already_pbir"
    ELSE IF scan THEN "eligible"
    ELSE "upgrading"

\* ClassifyMsg without the check "rpt_format == 'PBIR'"
ClassifyMsg_NoPbirCheck(fmt, scan) ==
    IF fmt = None THEN "not_found"
    ELSE IF fmt # "PBIRLegacy" THEN "unsupported_format"
    ELSE IF scan THEN "eligible"
    ELSE "upgrading"

\* ClassifyMsg without the check "if scan_only"
ClassifyMsg_IgnoreScan(fmt, scan) ==
    IF fmt = None THEN "not_found"
    ELSE IF fmt = "PBIR" THEN "already_pbir"
    ELSE IF fmt # "PBIRLegacy" THEN "unsupported_format"
    ELSE "upgrading"

\* message and next position chosen by the format checks of lines 210-244
ClassifyMsg(fmt, scan) ==
    IF fmt = None THEN "not_found"
    ELSE IF fmt = "PBIR" THEN "already_pbir"
    ELSE IF fmt # "PBIRLegacy" THEN "unsupported_format"
    ELSE IF scan THEN "eligible"
    ELSE "upgrading"

\* The initial listing and the classification of the report's format.
InitialListing ==
    /\ pc = "u_list"
    /\ calls' = Append(calls, "list")
    /\ \/ \* _base_api raises: nothing catches it
          /\ pc' = "raised"
          /\ exc' = "initial_listing"
          /\ UNCHANGED <<response, rpt_format, printed, ret>>
       \/ \E value \in ListingResponses :
            LET fmt == FindFormat(value, TargetId)
                msg == ClassifyMsg(fmt, scan_only)
            IN  /\ response' = value
                /\ rpt_format' = fmt
                /\ printed' = Append(printed, msg)
                /\ IF msg = "upgrading"
                   THEN pc' = "u_token" /\ ret' = ret
                   ELSE pc' = "done" /\ ret' = None
                /\ exc' = exc
    /\ UNCHANGED <<scan_only, srvFormat, srvSavePending, access_token, elapsed,
                   verified, unverified, dsvVars>>

\* GenerateToken whose except block lacks the return
GenerateToken_FallThrough ==
    /\ pc = "u_token"
    /\ calls' = Append(calls, "token")
    /\ \/ /\ printed' = Append(printed, "token_failed")
          /\ pc' = "u_embed"
          /\ UNCHANGED <<access_token, ret>>
       \/ /\ \E t \in {"token", None} : access_token' = t
          /\ pc' = "u_embed"
          /\ UNCHANGED <<printed, ret>>
    /\ UNCHANGED <<scan_only, srvFormat, srvSavePending, response, rpt_format,
                   elapsed, verified, unverified, exc, dsvVars>>

\* _generate_embed_token inside try/except Exception
GenerateToken ==
    /\ pc = "u_token"
    /\ calls' = Append(calls, "token")
    /\ \/ \* the call raises: the failure is printed and the function returns
          /\ printed' = Append(printed, "token_failed")
          /\ pc' = "done"
          /\ ret' = None
          /\ UNCHANGED access_token
       \/ \* response.json().get("token"): a token, or None when key is absent
          /\ \E t \in {"token", None} : access_token' = t
          /\ pc' = "u_embed"
          /\ UNCHANGED <<printed, ret>>
    /\ UNCHANGED <<scan_only, srvFormat, srvSavePending, response, rpt_format,
                   elapsed, verified, unverified, exc, dsvVars>>

\* _embed_report_edit_mode: the hidden report is displayed; with a token the
\* browser opens an edit session whose save may convert the report.
\* The next statement, start_time = time.time(), starts the poller's clock.
EmbedReport ==
    /\ pc = "u_embed"
    /\ calls' = Append(calls, "embed")
    /\ srvSavePending' = (access_token # None)
    /\ elapsed' = 0
    /\ pc' = "u_while"
    /\ UNCHANGED <<scan_only, srvFormat, response, rpt_format, access_token,
                   verified, unverified, printed, ret, exc, dsvVars>>

\* while time.time() - start_time < _TIME_LIMIT
PollWhile ==
    /\ pc = "u_while"
    /\ pc' = IF elapsed < _TIME_LIMIT THEN "u_poll" ELSE "u_report"
    /\ UNCHANGED <<scan_only, upgVars, dsvVars, printed, ret, exc>>

\* One listing request of the loop, taking d seconds, and the for loop that
\* fills verified and unverified; "if not unverified: break".
PollListing ==
    /\ pc = "u_poll"
    /\ calls' = Append(calls, "poll")
    /\ \E d \in 0..MaxPollSecs :
         /\ elapsed' = elapsed + d
         /\ \/ \* _base_api raises: nothing catches it
               /\ pc' = "raised"
               /\ exc' = "poll_listing"
               /\ UNCHANGED <<response, verified, unverified>>
            \/ \E value \in ListingResponses :
                 /\ response' = value
                 /\ verified' = VerifiedIds(value, updated_report_ids)
                 /\ unverified' = UnverifiedIds(value, updated_report_ids)
                 /\ pc' = IF unverified' = {} THEN "u_report" ELSE "u_sleep"
                 /\ exc' = exc
    /\ UNCHANGED <<scan_only, srvFormat, srvSavePending, rpt_format,
                   access_token, printed, ret, dsvVars>>

\* time.sleep(_TIME_BETWEEN_REQUESTS)
PollSleep ==
    /\ pc = "u_sleep"
    /\ elapsed' = elapsed + _TIME_BETWEEN_REQUESTS
    /\ pc' = "u_while"
    /\ UNCHANGED <<scan_only, srvFormat, srvSavePending, response, rpt_format,
                   access_token, verified, unverified, calls, printed, ret,
                   exc, dsvVars>>

\* message printed for one id by the final for loop
StatusMsg(id, ver) == IF id \in ver THEN "upgraded" ELSE "unverified"

\* for rpt_id in updated_report_ids: print ... ; the function then returns
ReportStatus ==
    /\ pc = "u_report"
    /\ printed' = Append(printed, StatusMsg(TargetId, verified))
    /\ pc' = "done"
    /\ ret' = None
    /\ UNCHANGED <<scan_only, upgVars, dsvVars, exc>>

\* The service commits the save of the embedded edit session: the report's
\* format flips to PBIR.  It may happen at any time, or never.
ServerUpgrade ==
    /\ srvSavePending
    /\ srvFormat = "PBIRLegacy"
    /\ srvFormat' = "PBIR"
    /\ srvSavePending' = FALSE
    /\ UNCHANGED <<pc, scan_only, response, rpt_format, access_token, elapsed,
                   verified, unverified, calls, printed, ret, exc, dsvVars>>

\* ------------------------------------------------------------------------
\* fix_default_datasource_version
\* ------------------------------------------------------------------------
\* The caller invokes fix_default_datasource_version(report, workspace,
\* scan_only); workspace and dataset are resolved by the external helpers.
CallDsv ==
    /\ pc = "idle"
    /\ \E s \in BOOLEAN : scan_only' = s
    /\ pc' = "d_connect"
    /\ UNCHANGED <<upgVars, dsvVars, printed, ret, exc>>

\* a connection that is closed only at the end of the block, not by a
\* context manager
ExitWith_Leak(c) == c

\* Leaving the with block, by return, by falling off its end or by an
\* exception, runs the context manager's exit, which releases the connection.
ExitWith(c) == "released"

\* with connect_semantic_model(dataset, readonly=scan_only, workspace) as tom
Connect ==
    /\ pc = "d_connect"
    /\ \/ \* connecting raises: no connection was opened
          /\ pc' = "raised"
          /\ exc' = "connect"
          /\ UNCHANGED conn
       \/ /\ conn' = "open"
          /\ pc' = "d_read"
          /\ UNCHANGED exc
    /\ UNCHANGED <<scan_only, upgVars, modelDsv, current_value, writes,
                   printed, ret>>

\* DsvBranch without the check "if scan_only"
DsvBranch_IgnoreScan(cur, scan) ==
    IF cur = "PowerBI_V3" THEN "already_v3" ELSE "setting"

\* branch taken after reading the property (lines 63-83)
DsvBranch(cur, scan) ==
    IF cur = "PowerBI_V3" THEN "already_v3"
    ELSE IF scan THEN "would_set"
    ELSE "setting"

\* current_value = str(tom.model.DefaultPowerBIDataSourceVersion) and the
\* two early returns
ReadProperty ==
    /\ pc = "d_read"
    /\ \/ \* reading the property raises
          /\ conn' = ExitWith(conn)
          /\ pc' = "raised"
          /\ exc' = "read"
          /\ UNCHANGED <<current_value, printed, ret>>
       \/ LET cur == Str(modelDsv)
              branch == DsvBranch(cur, scan_only)
          IN  /\ current_value' = cur
              /\ printed' = Append(printed, branch)
              /\ IF branch = "setting"
                 THEN /\ pc' = "d_write"
                      /\ UNCHANGED <<conn, ret>>
                 ELSE /\ conn' = ExitWith(conn)
                      /\ pc' = "done"
                      /\ ret' = None
              /\ UNCHANGED exc
    /\ UNCHANGED <<scan_only, upgVars, modelDsv, writes>>

\* value assigned at lines 89-91
WrittenValue == EnumMember("PowerBI_V3")

\* tom.model.DefaultPowerBIDataSourceVersion = TOM...PowerBI_V3, the final
\* message and the end of the with block
WriteProperty ==
    /\ pc = "d_write"
    /\ writes' = Append(writes, WrittenValue)
    /\ \/ \* the assignment raises
          /\ conn' = ExitWith(conn)
          /\ pc' = "raised"
          /\ exc' = "write"
          /\ UNCHANGED <<modelDsv, printed, ret>>
       \/ /\ modelDsv' = WrittenValue
          /\ printed' = Append(printed, "has_been_set")
          /\ conn' = ExitWith(conn)
          /\ pc' = "done"
          /\ ret' = None
          /\ UNCHANGED exc
    /\ UNCHANGED <<scan_only, upgVars, current_value>>

Next ==
    \/ CallUpgrade
    \/ InitialListing
    \/ GenerateToken
    \/ EmbedReport
    \/ PollWhile
    \/ PollListing
    \/ PollSleep
    \/ ReportStatus
    \/ ServerUpgrade
    \/ CallDsv
    \/ Connect
    \/ ReadProperty
    \/ WriteProperty

Spec == Init /\ [][Next]_vars

TypeOK ==
    /\ pc \in {"idle", "u_list", "u_token", "u_embed", "u_while", "u_poll",
               "u_sleep", "u_report", "d_connect", "d_read", "d_write",
               "done", "raised"}
    /\ scan_only \in BOOLEAN
    /\ srvFormat \in FormatValues
    /\ srvSavePending \in BOOLEAN
    /\ rpt_format \in FormatValues
    /\ access_token \in {Unset, None, "token"}
    /\ elapsed \in 0..(_TIME_LIMIT + MaxPollSecs + _TIME_BETWEEN_REQUESTS)
    /\ verified \subseteq updated_report_ids
    /\ unverified \subseteq updated_report_ids
    /\ ret \in {Unset, None}
    /\ exc \in {"none", "initial_listing", "poll_listing", "connect", "read",
                "write"}
    /\ conn \in {"closed", "open", "released"}
    /\ modelDsv \in DataSourceVersions
    /\ current_value \in {Unset, "PowerBI_V1", "PowerBI_V2", "PowerBI_V3"}

\* ------------------------------------------------------------------------
\* Vocabulary of the properties
\* ------------------------------------------------------------------------
\* number of occurrences of x in seq
Count(seq, x) == Cardinality({ i \in DOMAIN seq : seq[i] = x })

\* the run printed message m
Printed(m) == \E i \in DOMAIN printed : printed[i] = m

\* the fixer has ended, by returning or by an exception
Ended == pc \in {"done", "raised"}

\* the run issued none of token generation, embed trigger and polling
NoMutatingCall ==
    /\ Count(calls, "token") = 0
    /\ Count(calls, "embed") = 0
    /\ Count(calls, "poll") = 0

\* the listing value shows report id with format PBIR
ShowsPbir(value, id) ==
    \E i \in DOMAIN value : value[i].id = id /\ value[i].format = "PBIR"

\* the listing value contains a record of report id
HasId(value, id) == \E i \in DOMAIN value : value[i].id = id

\* a returned value that tells the caller the run succeeded / failed
SuccessIndicator(r) == r = "True"
FailureIndicator(r) == r = "False"

\* most listing requests one polling loop can start: one every
\* _TIME_BETWEEN_REQUESTS seconds while less than _TIME_LIMIT has elapsed
MaxPolls == _TIME_LIMIT \div _TIME_BETWEEN_REQUESTS

\* ------------------------------------------------------------------------
\* C1  (as stated) A fix run on a PBIRLegacy report issues exactly one token
\* generation, then exactly one embed trigger, then the polling, whatever
\* the outcome of the token generation, also when it raises.
\* ------------------------------------------------------------------------
C1_EmbedAndPollAlways ==
    (Ended /\ rpt_format = "PBIRLegacy" /\ ~scan_only) =>
        /\ Count(calls, "token") = 1
        /\ Count(calls, "embed") = 1
        /\ Len(calls) >= 4
        /\ calls[2] = "token"
        /\ calls[3] = "embed"
        /\ calls[4] = "poll"

\* C1  (amended) A fix run on a PBIRLegacy report issues exactly one token
\* generation right after the listing.  When that call returns, exactly one
\* embed trigger follows and then only listing requests of the bounded
\* polling, at least one and at most MaxPolls.  When it raises, the failure
\* is printed and the run ends with no embed trigger and no polling.
C1_TokenThenEmbedThenPoll ==
    (Ended /\ rpt_format = "PBIRLegacy" /\ ~scan_only) =>
        /\ Len(calls) >= 2
        /\ calls[1] = "list"
        /\ calls[2] = "token"
        /\ Count(calls, "token") = 1
        /\ IF Printed("token_failed")
           THEN calls = <<"list", "token">> /\ pc = "done"
           ELSE /\ Len(calls) >= 4
                /\ calls[3] = "embed"
                /\ \A i \in 4..Len(calls) : calls[i] = "poll"
                /\ Count(calls, "poll") <= MaxPolls

\* a fix run that generated a token, embedded and polled more than once
C1_Witness ==
    /\ pc = "done"
    /\ rpt_format = "PBIRLegacy"
    /\ ~scan_only
    /\ access_token = "token"
    /\ Count(calls, "embed") = 1
    /\ Count(calls, "poll") >= 2

\* ------------------------------------------------------------------------
\* C2  A report whose format tag is neither PBIR nor PBIRLegacy takes the
\* branch that prints "only PBIRLegacy reports can be upgraded" and the run
\* returns after the listing; token generation, embed trigger and polling
\* are never issued unless the observed format is PBIRLegacy, for either
\* value of scan_only.  (A record without a format has no format value and
\* is reported as not found.)
\* ------------------------------------------------------------------------
C2_UnsupportedFormatNoAction ==
    /\ rpt_format # "PBIRLegacy" => NoMutatingCall
    /\ rpt_format \in FormatTags \ {"PBIR", "PBIRLegacy"} =>
           /\ pc = "done"
           /\ printed = <<"unsupported_format">>
           /\ calls = <<"list">>

\* a fix run that found the report with another format tag
C2_Witness ==
    /\ pc = "done"
    /\ ~scan_only
    /\ rpt_format = "RDL"
    /\ HasId(response, TargetId)

\* ------------------------------------------------------------------------
\* C3  (as stated) On a PBIR report the run is a no-op that returns a
\* success indicator and issues no mutating call.
\* ------------------------------------------------------------------------
C3_ReturnsSuccessIndicator ==
    (pc = "done" /\ rpt_format = "PBIR") =>
        /\ SuccessIndicator(ret)
        /\ NoMutatingCall

\* C3  (amended) On a PBIR report the run, scan or fix, prints that the
\* report is already in PBIR format, returns None and issues no remote call
\* but the listing.
C3_AlreadyPbirNoOp ==
    /\ rpt_format = "PBIR" =>
           /\ pc = "done"
           /\ printed = <<"already_pbir">>
           /\ ret = None
           /\ calls = <<"list">>

\* a fix run that found the report in PBIR format
C3_Witness ==
    /\ pc = "done"
    /\ ~scan_only
    /\ rpt_format = "PBIR"
    /\ ShowsPbir(response, TargetId)

\* ------------------------------------------------------------------------
\* C4  A scan run on a PBIRLegacy report prints that the report is eligible
\* and returns; the listing is the only remote call of the run.
\* ------------------------------------------------------------------------
C4_ScanOnlyNoMutation ==
    /\ (scan_only /\ rpt_format = "PBIRLegacy") =>
           /\ pc = "done"
           /\ printed = <<"eligible">>
           /\ calls = <<"list">>
    /\ scan_only => NoMutatingCall /\ ~srvSavePending

\* a scan run that found the report in PBIRLegacy format
C4_Witness ==
    /\ pc = "done"
    /\ scan_only
    /\ rpt_format = "PBIRLegacy"
    /\ Printed("eligible")

\* ------------------------------------------------------------------------
\* C5  A run of fix_default_datasource_version that returns has written the
\* property exactly once if the value read differs from "PowerBI_V3" and
\* scan_only is unset, and never otherwise; no run writes more than once or
\* any value but PowerBI_V3, and after a write that succeeded the property
\* is PowerBI_V3.
\* ------------------------------------------------------------------------
C5_WriteIffDiffers ==
    /\ Len(writes) <= 1
    /\ \A i \in DOMAIN writes : Str(writes[i]) = "PowerBI_V3"
    /\ writes # <<>> => (~scan_only /\ current_value \notin {Unset, "PowerBI_V3"})
    /\ (pc = "done" /\ current_value # Unset) =>
           /\ Len(writes) =
                  IF current_value # "PowerBI_V3" /\ ~scan_only THEN 1 ELSE 0
           /\ writes # <<>> => Str(modelDsv) = "PowerBI_V3"
           /\ writes = <<>> => Str(modelDsv) = current_value

\* a fix run that read another version and wrote the property
C5_Witness ==
    /\ pc = "done"
    /\ ~scan_only
    /\ current_value = "PowerBI_V1"
    /\ Len(writes) = 1
    /\ Printed("has_been_set")

\* ------------------------------------------------------------------------
\* C6  (as stated) The polling loop ends within _TIME_LIMIT seconds, no
\* poll and no sleep reaching past it; "has been upgraded" is printed
\* exactly when the last listing confirmed PBIR, and "could not be verified"
\* exactly when the time limit ran out without confirmation.
\* ------------------------------------------------------------------------
C6_WithinBudgetAndDistinct ==
    /\ pc \in {"u_while", "u_poll", "u_sleep", "u_report"} =>
           elapsed <= _TIME_LIMIT
    /\ (pc = "done" /\ Count(calls, "poll") > 0) =>
           /\ Printed("upgraded") <=> ShowsPbir(response, TargetId)
           /\ Printed("unverified") <=>
                  (elapsed >= _TIME_LIMIT /\ ~ShowsPbir(response, TargetId))

\* ------------------------------------------------------------------------
\* C7  (as stated) When the listing does not contain the report, the run
\* prints "could not find", returns a failure indicator and makes no
\* further remote call.
\* ------------------------------------------------------------------------
C7_ReturnsFailureIndicator ==
    (pc = "done" /\ ~Printed("upgrading") /\ calls # <<>>
        /\ ~HasId(response, TargetId)) =>
        /\ printed = <<"not_found">>
        /\ FailureIndicator(ret)
        /\ calls = <<"list">>

\* C7  (amended) When the initial listing does not contain the report, the
\* run, scan or fix, prints "could not find", returns None, and no remote
\* call is made after the listing.
C7_NotFoundNoFurtherCall ==
    [][ /\ (pc = "u_list" /\ pc' # "raised" /\ ~HasId(response', TargetId)) =>
              /\ pc' = "done"
              /\ printed' = <<"not_found">>
              /\ ret' = None
              /\ calls' = <<"list">>
        /\ pc = "done" => (pc' = "done" /\ calls' = calls /\ ret' = ret) ]_vars

\* a fix run whose listing lacked the report although others were listed
C7_Witness ==
    /\ pc = "done"
    /\ ~scan_only
    /\ printed = <<"not_found">>
    /\ response # <<>>
    /\ ~HasId(response, TargetId)

\* ------------------------------------------------------------------------
\* C8  No run of fix_default_datasource_version ends with the connection
\* open: once opened it is released when the run returns early, returns
\* after the scan message, returns after the write, or is left by an
\* exception of the read or of the write.
\* ------------------------------------------------------------------------
C8_ConnectionReleased ==
    /\ Ended => conn # "open"
    /\ (pc = "done" /\ current_value # Unset) => conn = "released"
    /\ exc \in {"read", "write"} => conn = "released"
    /\ conn = "open" => pc \in {"d_read", "d_write"}

\* a run whose write raised
C8_Witness ==
    /\ pc = "raised"
    /\ exc = "write"
    /\ conn = "released"

\* ------------------------------------------------------------------------
\* C9  (as stated) No exception raised by a remote call of
\* fix_upgrade_to_pbir (initial listing, token generation, listing of the
\* polling) leaves the function.
\* ------------------------------------------------------------------------
C9_NoExceptionPropagates ==
    exc \notin {"initial_listing", "token", "poll_listing"}

\* ------------------------------------------------------------------------
\* C10  (as stated) Whenever the polling loop stops before the time limit,
\* the last listing showed every id of updated_report_ids in PBIR format.
\* ------------------------------------------------------------------------
C10_StopsOnlyWhenAllPbir ==
    (pc = "u_report" /\ elapsed < _TIME_LIMIT) =>
        \A id \in updated_report_ids : ShowsPbir(response, id)
====
